---- MODULE Spec2Model ----
(***************************************************************************)
(* rs-copier: concurrent directory tree copy (src/src/main.rs).            *)
(*                                                                         *)
(* A path is a sequence of names.  The kind of an entry (what              *)
(* DirEntry::file_type reports) is carried by its last name: names in      *)
(* FileNames are regular files, names in OtherNames are entries that are   *)
(* neither regular files nor directories (symlinks, devices), every other  *)
(* name is a directory.  The filesystem is the set fs of existing paths,   *)
(* holding the source tree and the destination tree.                       *)
(*                                                                         *)
(* invs[1] is the process_directory call main awaits itself (main.rs:130); *)
(* invs[i], i > 1, are the calls spawned into the JoinSet (main.rs:134).   *)
(* Every filesystem call of process_directory is one step, so spawned      *)
(* calls interleave with each other and with main.                         *)
(***************************************************************************)
EXTENDS Integers, Sequences, FiniteSets, TLC

\* ---------------------------------------------------------------- bounds
MaxNodes == 3       \* entries of the source tree below the source root
MaxConc == 2        \* --concurrency ranges over 1..MaxConc
MaxFaults == 1      \* injected I/O failures per run

\* ----------------------------------------------------------------- names
DirNames == {"a", "b"}
FileNames == {"f", "g"}
OtherNames == {"s"}
Names == DirNames \cup FileNames \cup OtherNames

base_source == <<"src">>
base_dest == <<"dst">>

VARIABLES fs, src0, prev, delete_source, batch_size, pc, outcome, dirs, invs, set,
          ioFailed, injected

vars == <<fs, src0, prev, delete_source, batch_size, pc, outcome, dirs, invs, set,
          ioFailed, injected>>

\* ----------------------------------------------------------------- paths
Last(p) == p[Len(p)]

Front(s) == SubSeq(s, 1, Len(s) - 1)

IsPrefix(b, p) == Len(b) <= Len(p) /\ SubSeq(p, 1, Len(b)) = b

\* Path::strip_prefix: the suffix of p below b
strip_prefix(p, b) == SubSeq(p, Len(b) + 1, Len(p))

\* PathBuf::join with a relative path
join(p, rel) == p \o rel

file_name(p) == <<Last(p)>>

\* file_type.is_file()
is_file(p) == Last(p) \in FileNames

IsDirectory(p) == Last(p) \notin FileNames /\ Last(p) \notin OtherNames

\* direct children of directory d in filesystem f
Children(f, d) == {p \in f : Len(p) = Len(d) + 1 /\ IsPrefix(d, p)}

\* dest of a spawned call: base_dest.join(dir.strip_prefix(&base_source))
MapDest(dir) == join(base_dest, strip_prefix(dir, base_source))

\* the file name not joined to the destination directory
CopyTargetNoName(dest, from) == dest

\* to = dest.join(path.file_name())
CopyTarget(dest, from) == join(dest, file_name(from))

\* the create_dir_all call left out
CreateDirMissing(f, d) == f

\* create_dir_all: the directory and its missing ancestors
CreateDirAll(f, d) == f \cup {SubSeq(d, 1, k) : k \in 1..Len(d)}

\* remove_dir in place of remove_dir_all: only an empty directory goes
RemoveDirIfEmpty(f, d) == IF Children(f, d) = {} THEN f \ {d} ELSE f

\* remove_dir_all: the directory and everything below it
RemoveDirAll(f, d) == {p \in f : ~IsPrefix(d, p)}

\* `>` in place of `>=`
PoolOverFull(n, limit) == n > limit

\* set.len() >= batch_size
PoolFull(n, limit) == n >= limit

\* the remove_source test dropped
AfterCopyAlwaysRemove(remove_source) == "remove_file"

\* after a successful copy: remove the source file only if remove_source
AfterCopy(remove_source) == IF remove_source THEN "remove_file" ELSE "next_entry"

\* the copy error returned with `?` instead of being logged
AfterCopyErrorReturn == "err"

\* after a failed copy: error!() and on to the next entry
AfterCopyError == "next_entry"

\* the joined list merged twice
AppendTwice(queue, new_dirs) == queue \o new_dirs \o new_dirs

\* the joined list dropped
AppendNothing(queue, new_dirs) == queue

\* dirs.append(&mut new_dirs)
append(queue, new_dirs) == queue \o new_dirs

\* ----------------------------------------------------------- source trees
\* entries that can be added to tree t (relative paths): a new child of the
\* root or of a directory of t
Ext(t) ==
    {Append(q, nm) : q \in {d \in t \cup {<<>>} : d = <<>> \/ Last(d) \in DirNames},
                     nm \in Names} \ t

RECURSIVE TreesUpTo(_)
TreesUpTo(n) ==
    IF n = 0 THEN {{}}
    ELSE LET T == TreesUpTo(n - 1)
         IN  T \cup UNION {{t \cup {p} : p \in Ext(t)} : t \in T}

\* ---------------------------------------------------------- invocations
NewInv(source, dest) ==
    [dir |-> source, dest |-> dest, pc |-> "read_dir", todo |-> {},
     cur |-> <<>>, directories |-> <<>>]

\* only a call that returned Ok counts as finished
FinishedOkOnly(inv) == inv.pc = "done"

\* the call has returned: Ok(directories), or an error
Finished(inv) == inv.pc \in {"done", "err"}

Faults == IF injected < MaxFaults THEN {TRUE, FALSE} ELSE {FALSE}

Fail(op, path, forced) ==
    /\ ioFailed' = ioFailed \cup {[op |-> op, path |-> path]}
    /\ injected' = IF forced THEN injected ELSE injected + 1

NoFail == UNCHANGED <<ioFailed, injected>>

Init ==
    /\ \E t \in TreesUpTo(MaxNodes) :
          /\ src0 = {base_source} \cup {join(base_source, r) : r \in t}
          /\ fs = src0
    /\ prev = <<>>
    /\ delete_source \in BOOLEAN
    /\ batch_size \in 1..MaxConc
    /\ pc = "seed"
    /\ outcome = "running"
    /\ dirs = <<>>
    /\ invs = <<NewInv(base_source, base_dest)>>
    /\ set = {}
    /\ ioFailed = {}
    /\ injected = 0

\* call i of process_directory may take a step: the seed call while main
\* awaits it, a spawned call while it is in the JoinSet and main has not
\* returned (returning drops the JoinSet and the runtime, aborting the tasks)
Runs(i) ==
    \/ i = 1 /\ pc = "seed"
    \/ i \in set /\ pc # "exited"

\* tokio::fs::read_dir(&source).await?
ReadDir(i) ==
    /\ Runs(i) /\ invs[i].pc = "read_dir"
    /\ LET d == invs[i].dir
           possible == d \in fs /\ IsDirectory(d)
       IN  \E fault \in Faults :
             IF possible /\ ~fault
             THEN /\ invs' = [invs EXCEPT ![i].pc = "create_dir_all",
                                          ![i].todo = Children(fs, d)]
                  /\ NoFail
             ELSE /\ invs' = [invs EXCEPT ![i].pc = "err"]
                  /\ Fail("read_dir", d, ~possible)
    /\ UNCHANGED <<fs, src0, prev, delete_source, batch_size, pc, outcome, dirs, set>>

\* tokio::fs::create_dir_all(&dest).await?
CreateDir(i) ==
    /\ Runs(i) /\ invs[i].pc = "create_dir_all"
    /\ \E fault \in Faults :
         IF ~fault
         THEN /\ fs' = CreateDirAll(fs, invs[i].dest)
              /\ invs' = [invs EXCEPT ![i].pc = "next_entry"]
              /\ NoFail
         ELSE /\ invs' = [invs EXCEPT ![i].pc = "err"]
              /\ Fail("create_dir_all", invs[i].dest, FALSE)
              /\ UNCHANGED fs
    /\ UNCHANGED <<src0, prev, delete_source, batch_size, pc, outcome, dirs, set>>

\* while let Some(path) = paths.next_entry().await? { ... } : the listing is
\* exhausted and the call returns Ok(directories)
ReturnOk(i) ==
    /\ Runs(i) /\ invs[i].pc = "next_entry" /\ invs[i].todo = {}
    /\ invs' = [invs EXCEPT ![i].pc = "done"]
    /\ UNCHANGED <<fs, src0, prev, delete_source, batch_size, pc, outcome, dirs, set,
                   ioFailed, injected>>

\* one iteration of the loop body up to and including the copy
NextEntry(i) ==
    /\ Runs(i) /\ invs[i].pc = "next_entry"
    /\ \E e \in invs[i].todo :
         LET rest == invs[i].todo \ {e}
             to == CopyTarget(invs[i].dest, e)
         IN
         \/ \* next_entry() fails: `?` returns the error
            /\ TRUE \in Faults
            /\ invs' = [invs EXCEPT ![i].pc = "err"]
            /\ Fail("next_entry", invs[i].dir, FALSE)
            /\ UNCHANGED fs
         \/ \* file_type() fails: logged, entry skipped
            /\ TRUE \in Faults
            /\ invs' = [invs EXCEPT ![i].todo = rest]
            /\ Fail("file_type", e, FALSE)
            /\ UNCHANGED fs
         \/ \* regular file: copy
            /\ is_file(e)
            /\ \E fault \in Faults :
                 IF e \in fs /\ ~fault
                 THEN /\ fs' = fs \cup {to}
                      /\ invs' = [invs EXCEPT ![i].todo = rest, ![i].cur = e,
                                     ![i].pc = AfterCopy(delete_source)]
                      /\ NoFail
                 ELSE /\ invs' = [invs EXCEPT ![i].todo = rest,
                                     ![i].pc = AfterCopyError]
                      /\ Fail("copy", e, e \notin fs)
                      /\ UNCHANGED fs
         \/ \* anything else: directories.push(path.path())
            /\ ~is_file(e)
            /\ invs' = [invs EXCEPT ![i].todo = rest,
                           ![i].directories = Append(@, e)]
            /\ NoFail
            /\ UNCHANGED fs
    /\ UNCHANGED <<src0, prev, delete_source, batch_size, pc, outcome, dirs, set>>

\* tokio::fs::remove_file(&from).await : failure is logged only
RemoveFile(i) ==
    /\ Runs(i) /\ invs[i].pc = "remove_file"
    /\ LET from == invs[i].cur
       IN  \E fault \in Faults :
             IF from \in fs /\ ~fault
             THEN /\ fs' = fs \ {from}
                  /\ NoFail
             ELSE /\ Fail("remove_file", from, from \notin fs)
                  /\ UNCHANGED fs
    /\ invs' = [invs EXCEPT ![i].pc = "next_entry"]
    /\ UNCHANGED <<src0, prev, delete_source, batch_size, pc, outcome, dirs, set>>

\* let mut dirs = process_directory(base_source, base_dest, ..).await?;
SeedReturn ==
    /\ pc = "seed" /\ Finished(invs[1])
    /\ IF invs[1].pc = "done"
       THEN /\ dirs' = invs[1].directories
            /\ pc' = "pop"
            /\ UNCHANGED outcome
       ELSE /\ pc' = "exited"
            /\ outcome' = "error"
            /\ UNCHANGED dirs
    /\ UNCHANGED <<fs, src0, prev, delete_source, batch_size, invs, set, ioFailed, injected>>

\* while let Some(dir) = dirs.pop() { set.spawn(..); if set.len() >= batch_size
Spawn ==
    /\ pc = "pop" /\ dirs # <<>>
    /\ LET dir == Last(dirs)
           id == Len(invs) + 1
       IN  /\ dirs' = Front(dirs)
           /\ invs' = Append(invs, NewInv(dir, MapDest(dir)))
           /\ set' = set \cup {id}
           /\ pc' = IF PoolFull(Cardinality(set'), batch_size) THEN "join" ELSE "pop"
    /\ UNCHANGED <<fs, src0, prev, delete_source, batch_size, outcome, ioFailed, injected>>

\* set.join_next().await : Ok(new_dirs) is appended, a JoinError is logged
JoinNext ==
    /\ pc = "join"
    /\ \E i \in set :
         /\ Finished(invs[i])
         /\ set' = set \ {i}
         /\ dirs' = IF invs[i].pc = "done" THEN append(dirs, invs[i].directories) ELSE dirs
    /\ pc' = "pop"
    /\ UNCHANGED <<fs, src0, prev, delete_source, batch_size, outcome, invs, ioFailed, injected>>

\* dirs.pop() returns None: the loop is left
LoopExit ==
    /\ pc = "pop" /\ dirs = <<>>
    /\ pc' = IF delete_source THEN "remove" ELSE "alldone"
    /\ UNCHANGED <<fs, src0, prev, delete_source, batch_size, outcome, dirs, invs, set,
                   ioFailed, injected>>

\* what a failing remove_dir_all may already have removed: whole subtrees
\* below the root, never the root itself
PartialRemovals(f, d) ==
    {R \in SUBSET {p \in f : IsPrefix(d, p) /\ p # d} :
        \A p \in R : \A q \in f : IsPrefix(p, q) => q \in R}

\* tokio::fs::remove_dir_all(base_source).await?
RemoveSource ==
    /\ pc = "remove"
    /\ \E fault \in Faults :
         IF ~fault
         THEN /\ fs' = RemoveDirAll(fs, base_source)
              /\ pc' = "alldone"
              /\ NoFail
              /\ UNCHANGED outcome
         ELSE /\ \E R \in PartialRemovals(fs, base_source) : fs' = fs \ R
              /\ pc' = "exited"
              /\ outcome' = "error"
              /\ Fail("remove_dir_all", base_source, FALSE)
    /\ UNCHANGED <<src0, prev, delete_source, batch_size, dirs, invs, set>>

\* info!("All done"); Ok(())
AllDone ==
    /\ pc = "alldone"
    /\ pc' = "exited"
    /\ outcome' = "ok"
    /\ UNCHANGED <<fs, src0, prev, delete_source, batch_size, dirs, invs, set, ioFailed, injected>>

ProcessDirectory ==
    \E i \in 1..Len(invs) :
        ReadDir(i) \/ CreateDir(i) \/ NextEntry(i) \/ ReturnOk(i) \/ RemoveFile(i)

Next ==
    \/ ProcessDirectory
    \/ SeedReturn
    \/ Spawn
    \/ JoinNext
    \/ LoopExit
    \/ RemoveSource
    \/ AllDone

Spec == Init /\ [][Next]_vars

\* the steps of main
Main == SeedReturn \/ Spawn \/ JoinNext \/ LoopExit \/ RemoveSource \/ AllDone

\* the tokio runtime keeps polling main and every spawned task that can
\* make progress
FairSpec == Spec /\ WF_vars(Main) /\ WF_vars(ProcessDirectory)

\* the destination tree
UnderDest(f) == {p \in f : IsPrefix(base_dest, p)}

\* the same command run a second time after a first run with
\* --delete-source false ended with Ok(()) and no I/O failure: main starts
\* again on the filesystem the first run left; prev keeps the destination
\* tree as the first run left it
Rerun ==
    /\ pc = "exited" /\ outcome = "ok" /\ ~delete_source
    /\ prev = <<>> /\ ioFailed = {}
    /\ prev' = <<UnderDest(fs)>>
    /\ pc' = "seed"
    /\ outcome' = "running"
    /\ dirs' = <<>>
    /\ invs' = <<NewInv(base_source, base_dest)>>
    /\ set' = {}
    /\ UNCHANGED <<fs, src0, delete_source, batch_size, ioFailed, injected>>

NextTwice == Next \/ Rerun

SpecTwice == Init /\ [][NextTwice]_vars

\* ------------------------------------------------------------ properties
Range(s) == {s[k] : k \in 1..Len(s)}

UnderSource(f) == {p \in f : IsPrefix(base_source, p)}

\* relative paths of the regular files below base in filesystem f
RelFiles(f, base) ==
    {strip_prefix(p, base) : p \in {q \in f : IsPrefix(base, q) /\ is_file(q)}}

Completed == outcome = "ok"

\* the dispatch loop has been left without a fatal error
LoopLeft == pc \in {"remove", "alldone"} \/ outcome = "ok"

\* spawned call i has not yet returned and has not been joined
Active(i) == i \in set /\ ~Finished(invs[i]) /\ pc # "exited"

FatalOps == {"read_dir", "create_dir_all", "next_entry"}

\* C1: when a run with deleteSource = false and no I/O failure has completed,
\* the relative paths of the regular files under destRoot are exactly those
\* of the regular files under sourceRoot.
C1_MirrorOnCompletion ==
    (Completed /\ ~delete_source /\ ioFailed = {})
        => RelFiles(fs, base_dest) = RelFiles(fs, base_source)

\* C2: with deleteSource = true, a file that no longer exists under
\* sourceRoot exists at its mapped path under destRoot, in every state.
C2_RemovedOnlyAfterTransfer ==
    delete_source =>
        \A p \in src0 : (is_file(p) /\ p \notin fs) => MapDest(p) \in fs

\* C3: once the scheduler has left the dispatch loop (final removal, 'All
\* done'), the work queue is empty and no invocation is in the in-flight set.
C3_CompleteOnlyWhenIdle ==
    LoopLeft => (dirs = <<>> /\ set = {})

\* C4: the number of spawned and not yet joined invocations never exceeds
\* the concurrency limit.
C4_ConcurrencyBound ==
    Cardinality(set) <= batch_size

C4_PoolFilled ==
    /\ batch_size >= 2
    /\ Cardinality(set) = batch_size
    /\ \E i \in set : ~Finished(invs[i])

\* C5: with deleteSource = true, the directory of a file whose copy or
\* removal failed, and every ancestor of it up to the source root, still
\* exists.
C5_FailedDirectoryKept ==
    delete_source =>
        \A r \in ioFailed :
            r.op \in {"copy", "remove_file"} =>
                \A k \in 1..(Len(r.path) - 1) : SubSeq(r.path, 1, k) \in fs

\* C6: a source directory that has been deleted has no descendant directory
\* still queued or still being processed.
C6_ChildrenBeforeDelete ==
    \A d \in src0 :
        (IsDirectory(d) /\ d \notin fs) =>
            /\ \A q \in Range(dirs) : IsDirectory(q) => ~IsPrefix(d, q)
            /\ \A i \in set :
                  (IsDirectory(invs[i].dir) /\ IsPrefix(d, invs[i].dir)) => ~Active(i)

\* C7: when a run with deleteSource = true and no I/O failure has completed,
\* nothing is left under the source root and the root itself is gone.
C7_SourceGoneOnCompletion ==
    (Completed /\ delete_source /\ ioFailed = {}) => UnderSource(fs) = {}

C7_NestedTreeMoved ==
    /\ Completed /\ delete_source /\ ioFailed = {}
    /\ \E p \in src0 : is_file(p) /\ Len(p) >= 3 /\ MapDest(p) \in fs

\* C8: with deleteSource = false, the source tree is the original tree in
\* every state.
C8_SourceUnchanged ==
    ~delete_source => UnderSource(fs) = src0

C8_CopiedWithoutDelete ==
    /\ ~delete_source /\ Completed
    /\ \E p \in src0 : is_file(p) /\ MapDest(p) \in fs

\* C9: after a fatal error in the invocation of any directory (root or
\* spawned) the run never reports successful completion.
C9_FatalErrorFailsRun ==
    (\E i \in 1..Len(invs) : invs[i].pc = "err" /\ IsDirectory(invs[i].dir))
        => ~Completed

\* C10: a copy or removal failure on one file is not fatal: an invocation
\* ends in error only on a failed listing or directory creation, an
\* invocation that returned has handled every listed entry (every regular
\* file copied or its failure logged, every directory in the returned list),
\* and the run ends in error only on a fatal failure.
C10_FileFailureNotFatal ==
    /\ \A i \in 1..Len(invs) :
          /\ invs[i].pc = "err" =>
                \E r \in ioFailed : /\ r.op \in FatalOps
                                    /\ r.path \in {invs[i].dir, invs[i].dest}
          /\ invs[i].pc = "done" =>
                \A e \in Children(src0, invs[i].dir) :
                    \/ [op |-> "file_type", path |-> e] \in ioFailed
                    \/ is_file(e) /\ CopyTarget(invs[i].dest, e) \in fs
                    \/ is_file(e) /\ [op |-> "copy", path |-> e] \in ioFailed
                    \/ IsDirectory(e) /\ e \in Range(invs[i].directories)
                    \/ ~is_file(e) /\ ~IsDirectory(e)
    /\ outcome = "error" =>
          \E r \in ioFailed : r.op \in FatalOps \cup {"remove_dir_all"}

C10_SiblingCopiedAfterFailure ==
    /\ Completed
    /\ \E i \in 1..Len(invs) :
          /\ invs[i].pc = "done"
          /\ \E e1, e2 \in Children(src0, invs[i].dir) :
                /\ e1 # e2 /\ is_file(e1) /\ is_file(e2)
                /\ [op |-> "copy", path |-> e1] \in ioFailed
                /\ CopyTarget(invs[i].dest, e1) \notin fs
                /\ CopyTarget(invs[i].dest, e2) \in fs

\* C11: with deleteSource = true, a failure of the final removal of the
\* source root is only logged: the run does not end with an error outcome
\* because of it.
C11_RootRemovalBestEffort ==
    (delete_source /\ [op |-> "remove_dir_all", path |-> base_source] \in ioFailed)
        => outcome # "error"

\* C12: no source directory is handed to two invocations of
\* process_directory during a run.
C12_DispatchedAtMostOnce ==
    \A i, j \in 1..Len(invs) : invs[i].dir = invs[j].dir => i = j

C12_NestedDispatched ==
    /\ Len(invs) >= 3
    /\ \E i \in 1..Len(invs) : Len(invs[i].dir) >= 3 /\ invs[i].pc = "done"

\* C13: an entry that is neither a regular file nor a directory is skipped:
\* it is never copied to the destination, never put in a returned
\* subdirectories list (or the queue) and never dispatched to an invocation.
C13_OtherEntriesSkipped ==
    /\ \A p \in fs : IsPrefix(base_dest, p) => Last(p) \notin OtherNames
    /\ \A i \in 1..Len(invs) :
          /\ IsDirectory(invs[i].dir)
          /\ \A e \in Range(invs[i].directories) : IsDirectory(e)
    /\ \A q \in Range(dirs) : IsDirectory(q)

\* C14: when a second run with deleteSource = false has completed without
\* I/O failure, the destination tree is the one the first run left.
C14_SecondRunSameDestination ==
    (Len(prev) = 1 /\ Completed /\ ~delete_source /\ ioFailed = {})
        => UnderDest(fs) = prev[1]

\* C15: when the run has completed, every subdirectory returned by an
\* invocation (root or spawned) has been dispatched to an invocation of its
\* own.
C15_ReportedSubdirsDispatched ==
    Completed =>
        \A i \in 1..Len(invs) :
            invs[i].pc = "done" =>
                \A e \in Range(invs[i].directories) :
                    IsDirectory(e) => \E j \in 1..Len(invs) : invs[j].dir = e

\* a step of some process_directory invocation (main stays where it is)
\* removes a source file only if deleteSource is set, the file's copy is at
\* its mapped destination path and its copy has not failed
RemovalFollowsCopy ==
    pc' = pc =>
        \A p \in fs \ fs' :
            /\ is_file(p) /\ delete_source
            /\ MapDest(p) \in fs
            /\ [op |-> "copy", path |-> p] \notin ioFailed

\* an invocation that returned with deleteSource set and no failure has left
\* every direct regular file absent from the source, present in the
\* destination directory
FilesMoved ==
    \A i \in 1..Len(invs) :
        (invs[i].pc = "done" /\ delete_source /\ ioFailed = {}) =>
            \A e \in Children(src0, invs[i].dir) :
                is_file(e) => (e \notin fs /\ CopyTarget(invs[i].dest, e) \in fs)

\* C16: within an invocation a source file is deleted only if deleteSource
\* is true and its copy succeeded before; a file whose copy failed is left
\* in place; with deleteSource true and no failure every direct regular file
\* ends up absent from the source directory and present in the destination
\* directory.
C16_DeleteOnlyAfterCopy ==
    []FilesMoved /\ [][RemovalFollowsCopy]_vars

C16_FileMovedSourceDirKept ==
    /\ delete_source /\ ioFailed = {} /\ base_source \in fs
    /\ \E i \in 1..Len(invs) :
          /\ invs[i].pc = "done"
          /\ \E e \in Children(src0, invs[i].dir) :
                is_file(e) /\ e \notin fs /\ CopyTarget(invs[i].dest, e) \in fs

\* C17: an invocation that returned without I/O failure has created its
\* destination directory, copied the regular files that are direct children
\* of its source directory and returned exactly the direct child
\* directories; it does not recurse: a file is in the destination only once
\* the invocation of its own directory has got to copying.
C17_OneLevelOnly ==
    /\ \A i \in 1..Len(invs) :
          (invs[i].pc = "done" /\ ioFailed = {}) =>
              /\ invs[i].dest \in fs
              /\ \A e \in Children(src0, invs[i].dir) :
                    is_file(e) => CopyTarget(invs[i].dest, e) \in fs
              /\ Range(invs[i].directories) =
                    {e \in Children(src0, invs[i].dir) : IsDirectory(e)}
    /\ \A p \in UnderDest(fs) :
          is_file(p) =>
              \E j \in 1..Len(invs) :
                  /\ invs[j].dest = Front(p)
                  /\ invs[j].pc \notin {"read_dir", "create_dir_all"}

\* C18: the root pair is processed to completion before any invocation is
\* spawned: whenever a spawned invocation exists, the root invocation has
\* returned Ok and the destination root exists.
C18_RootBeforeSpawn ==
    (set # {} \/ Len(invs) > 1) =>
        (invs[1].pc = "done" /\ base_dest \in fs)

C18_SpawnedInFlight ==
    \E i \in set : i > 1 /\ invs[i].pc = "create_dir_all" /\ base_dest \in fs

\* C19: under fair scheduling main eventually returns, with 'All done' or
\* with an error: the dispatch loop neither runs nor waits forever.
C19_Terminates ==
    <>(pc = "exited")

\* the scheduler waits on a full pool while work is pending in the queue
C19_FullPoolWait ==
    /\ pc = "join" /\ dirs # <<>>
    /\ \A i \in set : ~Finished(invs[i])

NoFatalError == \A i \in 1..Len(invs) : invs[i].pc # "err"

NoFileTypeError == \A r \in ioFailed : r.op # "file_type"

\* directory d has been processed by exactly one invocation, which returned
ProcessedOnce(d) ==
    /\ Cardinality({i \in 1..Len(invs) : invs[i].dir = d}) = 1
    /\ \E i \in 1..Len(invs) : invs[i].dir = d /\ invs[i].pc = "done"

====
